---------------------------- MODULE Spec2Model ----------------------------
(***************************************************************************)
(* Model of arduino_irrigation.ino: the cooperative loop() that decodes    *)
(* serial JSON commands (recieveStates), drives two valve motors           *)
(* (setValve / setMotor / checkValves) and samples the two flow pulse      *)
(* counters (updateFlowRate) that the pulse interrupts increment.          *)
(*                                                                         *)
(* Target: AVR (int = 16 bits, long = 32 bits, byte = 8 bits).             *)
(* The two channels' globals (targetValvePos0/1, motorState0/1, ...) are   *)
(* functions over Channels.  flowRate[] is a float; the model keeps the    *)
(* pulse count that enters the rate (flowPulses), not the quotient.        *)
(***************************************************************************)
EXTENDS Integers, Sequences, FiniteSets, TLC

----------------------------------------------------------------------------
(* Program constants                                                       *)

C_REPORT_INTERVAL == 4000

C_VALVE_OPEN_TIME == 4100

C_VALVE_CLOSE_TIME == 4100

SealMargin == 2000

MinReportInterval == 1000

\* delay(10) after a frame has been applied, line 269
DrainDelay == 10

Channels == {0, 1}

Keys == {"targetValvePos0", "targetValvePos1", "reportInterval"}

----------------------------------------------------------------------------
(* Bounds of the model                                                     *)

\* the millisecond clock is followed up to this reading
MaxTime == 6200

\* number of flow pulse edges that occur
MaxPulses == 3

\* milliseconds between two consecutive readings of millis() at line 183
Elapsed == {0, 3100}

\* integer values a frame may carry for targetValvePos0 / targetValvePos1
PosVals == {0, 40, 100, 356}

\* integer values a frame may carry for reportInterval
IntervalVals == {-1, 500, 3000}

\* the clock as followed after the last command
MaxRunTime == 12400

\* the clock as followed over a long report interval
MaxLongTime == 32770

\* time between two readings of the clock there
LongElapsed == {0, 16385}

\* integer values for targetValvePos0 around the range 0..100: negative,
\* inside, in 101..255, and beyond 255
RangeVals == {-1, 50, 200, 300}

\* time taken by updateSensorValues() before sendStates() stamps the report
SensorTime == {0, 10}

----------------------------------------------------------------------------
(* Integer widths                                                          *)

ToUint8(x) == x % 256

ToUint16(x) == x % 65536

ToInt16(x) ==
    LET m == x % 65536 IN IF m >= 32768 THEN m - 65536 ELSE m

abs(x) == IF x < 0 THEN -x ELSE x

----------------------------------------------------------------------------
VARIABLES
    pc,                  \* position of loop(): the statement to run next
    targetValvePos,      \* [Channels -> uint8_t]  targetValvePos0/1
    targetValvePosMsec,  \* [Channels -> long]     targetValvePosMsec0/1
    motorState,          \* [Channels -> {-1,0,1}] motorState0/1
    motorPins,           \* [Channels -> <<outPin0, outPin1>>] levels written
    reportInterval,      \* uint16_t
    now,                 \* last value returned by millis()
    lastTime,            \* unsigned long
    lastCheckTime,       \* unsigned long
    delta,               \* int
    reportDelta,         \* int
    pulseCount,          \* [Channels -> byte], volatile
    intAttached,         \* [Channels -> BOOLEAN] external interrupt enabled
    intPending,          \* [Channels -> BOOLEAN] edge latched while disabled
    flowPulses,          \* [Channels -> byte] pulse count read into flowRate[]
    serialOut,           \* kinds of frames written to Serial in this cycle
    timeStamp,           \* "timeStamp" of the last report written
    \* ---- observation (history) variables, not program state ----
    rx,                  \* what recieveStates() found in this cycle
    pre,                 \* the document decoded by recieveStates() and the
                         \* command/valve state just before it
    setValveArg,         \* [Channels -> percentage passed to setValve | NoCall]
    lim,                 \* limit pins as read by the last checkValves()
    atPoll,              \* motorState and remaining time of each channel
                         \* when checkValves() reached the limit polls
    run,                 \* per channel: the run started by the last command
    calls,               \* the calls loop() has made so far in this cycle
    started,             \* per channel: direction and run time given by the
                         \* setValve() call of this cycle, if any
    prevCheckTime,       \* lastCheckTime as this cycle's line 187 found it
    prevStamp,           \* the timeStamp of the report before the last one
    pulsesFired,         \* [Channels -> Nat] pulse edges that occurred
    pulsesConsumed       \* [Channels -> Nat] sum of counts read by samples

vars == << pc, targetValvePos, targetValvePosMsec, motorState, motorPins,
           reportInterval, now, lastTime, lastCheckTime, delta, reportDelta,
           pulseCount, intAttached, intPending, flowPulses, serialOut,
           timeStamp, rx, pre, setValveArg, lim, atPoll, run,
           calls, started, prevCheckTime, prevStamp,
           pulsesFired, pulsesConsumed >>

valveVars == << targetValvePos, targetValvePosMsec, motorState, motorPins >>

flowVars == << pulseCount, intAttached, intPending, flowPulses,
               pulsesFired, pulsesConsumed >>

clockVars == << now, lastTime, lastCheckTime, delta, reportDelta >>

----------------------------------------------------------------------------
(* Inbound frames: a parsed JSON document is a function from the keys it   *)
(* carries to their integer values.                                        *)

ValsOf(key) == IF key = "reportInterval" THEN IntervalVals ELSE PosVals

AllVals == PosVals \cup IntervalVals

Frames ==
    UNION { { f \in [K -> AllVals] : \A k \in K : f[k] \in ValsOf(k) }
            : K \in SUBSET Keys }

\* frames carrying valve targets only
RunFrames == { f \in Frames : "reportInterval" \notin DOMAIN f }

\* frames carrying only "reportInterval", with the largest value an int holds
LongFrames == { [ k \in { "reportInterval" } |-> v ] : v \in { 32767 } }

\* frames carrying only "targetValvePos0", with every value of the range
TravelFrames == { [ k \in { "targetValvePos0" } |-> v ] : v \in 0..100 }

\* frames carrying only "targetValvePos0"
RangeFrames == { [ k \in { "targetValvePos0" } |-> v ] : v \in RangeVals }

NoDoc == [k \in {} |-> 0]

NoCall == -1

PosKey(which) == IF which = 0 THEN "targetValvePos0" ELSE "targetValvePos1"


----------------------------------------------------------------------------
(* One valve channel as the code sees it through selectedPerc,             *)
(* selectedMsec, motorStateN and the two output pins.                      *)

Chan(which) ==
    [ perc  |-> targetValvePos[which],
      msec  |-> targetValvePosMsec[which],
      state |-> motorState[which],
      pins  |-> motorPins[which] ]

\* setMotor() raising the pin of the direction without lowering the other
setMotor_OnePin(c, direction) ==
    [ c EXCEPT !.state = direction,
               !.pins  = CASE direction = 0  -> << 0, 0 >>
                           [] direction = -1 -> << c.pins[1], 1 >>
                           [] direction = 1  -> << 1, c.pins[2] >>
                           [] OTHER          -> c.pins ]

\* setMotor(which, direction): lines 375-408
setMotor(c, direction) ==
    [ c EXCEPT !.state = direction,
               !.pins  = CASE direction = 0  -> << 0, 0 >>
                           [] direction = -1 -> << 0, 1 >>
                           [] direction = 1  -> << 1, 0 >>
                           [] OTHER          -> c.pins ]

\* the comparison of lines 305-308 with its two outcomes exchanged
Direction_Reversed(percentage, selectedPerc) ==
    IF percentage > selectedPerc THEN -1
    ELSE IF percentage < selectedPerc THEN 1
    ELSE 0

\* lines 305-310
Direction(percentage, selectedPerc) ==
    IF percentage > selectedPerc THEN 1
    ELSE IF percentage < selectedPerc THEN -1
    ELSE 0

\* lines 317-327 without the cases 0 and 100: every target scaled
TurnMsec_AlwaysScaled(percentage, selectedPerc, direction) ==
    LET turnLength == IF direction = -1 THEN C_VALVE_CLOSE_TIME
                                         ELSE C_VALVE_OPEN_TIME
        percentageChange == abs(selectedPerc - percentage)
    IN  ToInt16((turnLength \div 100) * percentageChange)

\* lines 313-327; the arithmetic is done in int
TurnMsec(percentage, selectedPerc, direction) ==
    LET turnLength == IF direction = -1 THEN C_VALVE_CLOSE_TIME
                                         ELSE C_VALVE_OPEN_TIME
        percentageChange == abs(selectedPerc - percentage)
    IN  CASE percentage = 0   -> ToInt16(C_VALVE_CLOSE_TIME + SealMargin)
          [] percentage = 100 -> ToInt16(C_VALVE_OPEN_TIME + SealMargin)
          [] OTHER -> ToInt16((turnLength \div 100) * percentageChange)

\* setValve() with line 330 moved before line 314: the target is stored
\* before the change is computed from it
setValve_StoreFirst(c, percentage) ==
    LET direction == Direction(percentage, c.perc)
        msec      == TurnMsec(percentage, percentage, direction)
    IN  setMotor([ c EXCEPT !.msec = msec, !.perc = percentage ], direction)

\* setValve(which, percentage): lines 286-334
setValve(c, percentage) ==
    LET direction == Direction(percentage, c.perc)
        msec      == TurnMsec(percentage, c.perc, direction)
    IN  setMotor([ c EXCEPT !.msec = msec, !.perc = percentage ], direction)

\* the count down without lines 342-343: an exhausted run is left alone
Countdown_NoStop(c, d) ==
    IF c.msec > 0 /\ c.state # 0
        THEN [ c EXCEPT !.msec = c.msec - d ]
    ELSE c

\* the count down stopping the motor in the call that exhausts the time
Countdown_StopAtOnce(c, d) ==
    IF c.state # 0
        THEN IF c.msec - d <= 0
                THEN [ setMotor(c, 0) EXCEPT !.msec = 0 ]
                ELSE [ c EXCEPT !.msec = c.msec - d ]
        ELSE c

\* checkValves(), count down: lines 340-344 (346-350 for channel 1)
Countdown(c, d) ==
    IF c.msec > 0 /\ c.state # 0
        THEN [ c EXCEPT !.msec = c.msec - d ]
    ELSE IF c.msec <= 0 /\ c.state # 0
        THEN setMotor(c, 0)
    ELSE c

\* a limit stop taken whatever the direction of the running motor
LimitStop_AnyDirection(c, asserted, dir) ==
    IF asserted /\ c.state # 0
        THEN [ setMotor(c, 0) EXCEPT !.msec = 0 ]
        ELSE c

\* a limit stop that leaves the remaining time as it is
LimitStop_KeepMsec(c, asserted, dir) ==
    IF asserted /\ c.state = dir THEN setMotor(c, 0) ELSE c

\* checkValves(), one limit switch: lines 353-356, 358-361, 363-366, 368-371
\* asserted: the pin reads LOW; dir: -1 for the close limit, 1 for the open
LimitStop(c, asserted, dir) ==
    IF asserted /\ c.state = dir
        THEN [ setMotor(c, 0) EXCEPT !.msec = 0 ]
        ELSE c

\* checkValves() with the limit polls chained to the count down by else:
\* they are reached only when the count down found nothing to do
checkValve_ElseLimits(c, d, pins) ==
    IF c.state # 0
        THEN Countdown(c, d)
        ELSE LimitStop(LimitStop(c, pins.close, -1), pins.open, 1)

\* checkValves() for one channel: count down, close limit, open limit
checkValve(c, d, pins) ==
    LimitStop(LimitStop(Countdown(c, d), pins.close, -1), pins.open, 1)

----------------------------------------------------------------------------
(* Decoding                                                                *)

\* as<int>() applied to the variant whether or not the key is there
getJsonKeyValueAsInt_NoDefault(doc, key, defaultVal) ==
    IF key \in DOMAIN doc THEN ToInt16(doc[key]) ELSE 0

\* getJsonKeyValueAsInt(doc, key, defaultVal): lines 501-505
getJsonKeyValueAsInt(doc, key, defaultVal) ==
    IF key \in DOMAIN doc THEN ToInt16(doc[key]) ELSE defaultVal

\* line 260 left out
ClampInterval_None(ri) == ri

\* line 260
ClampInterval(ri) ==
    IF ri >= MinReportInterval THEN ri ELSE C_REPORT_INTERVAL

\* lines 259-260: the int returned is stored into the uint16_t global
DecodeInterval(doc) ==
    ClampInterval(ToUint16(
        getJsonKeyValueAsInt(doc, "reportInterval", ToInt16(reportInterval))))

\* lines 257-258: int valvePosN
DecodePos(doc, which) ==
    getJsonKeyValueAsInt(doc, PosKey(which), targetValvePos[which])

\* lines 263-266: the channel after "move valves if requested"
ApplyPos(doc, which) ==
    IF DecodePos(doc, which) # targetValvePos[which]
        THEN setValve(Chan(which), ToUint8(DecodePos(doc, which)))
        ELSE Chan(which)

----------------------------------------------------------------------------
(* Observation of runs: the run a command started on a channel, the sum of *)
(* the deltas checkValves() has used since, and the number of cycles that  *)
(* ended with that sum at or beyond the run time.                          *)

NoRun == [ live |-> FALSE, D |-> 0, elapsed |-> 0, over |-> 0 ]

RunAfterCommand(which, doc) ==
    IF DecodePos(doc, which) = targetValvePos[which]
        THEN run[which]
    ELSE IF ApplyPos(doc, which).state # 0
        THEN [ live |-> TRUE, D |-> ApplyPos(doc, which).msec,
               elapsed |-> 0, over |-> 0 ]
    ELSE NoRun

RunAfterCheck(r, d, pins) ==
    IF ~r.live \/ pins.close \/ pins.open \/ r.over >= 2
        THEN NoRun
    ELSE [ r EXCEPT !.elapsed = r.elapsed + d,
                    !.over = IF r.elapsed + d >= r.D THEN r.over + 1 ELSE 0 ]

Snapshot(doc) ==
    [ doc |-> doc, perc |-> targetValvePos, msec |-> targetValvePosMsec,
      state |-> motorState, interval |-> reportInterval ]

NoPoll == [ ch \in Channels |-> [ state |-> 0, msec |-> 0 ] ]

NoPins == [ ch \in Channels |-> [ close |-> FALSE, open |-> FALSE ] ]

\* readings of the four limit pins (TRUE: the pin reads LOW, the switch is
\* asserted); in one call the asserted switches belong to one channel
PinReadings ==
    { p \in [ Channels -> [ close : BOOLEAN, open : BOOLEAN ] ] :
        \E ch \in Channels : ~p[ch].close /\ ~p[ch].open }


NotStarted == [ ch \in Channels |-> [ dir |-> 0, msec |-> 0 ] ]

\* what the setValve() call of lines 263-266 gave channel which
StartedBy(doc, which) ==
    IF DecodePos(doc, which) # targetValvePos[which]
        THEN [ dir  |-> ApplyPos(doc, which).state,
               msec |-> ApplyPos(doc, which).msec ]
        ELSE [ dir |-> 0, msec |-> 0 ]

NoSnapshot ==
    [ doc |-> NoDoc, perc |-> [ ch \in Channels |-> 0 ], msec |-> [ ch \in Channels |-> 0 ],
      state |-> [ ch \in Channels |-> 0 ], interval |-> 0 ]

----------------------------------------------------------------------------
(* State after setup(): globals zero-initialised, reportInterval at its    *)
(* default, motor outputs low, both pulse interrupts attached.             *)

Init ==
    /\ pc = "recieve"
    /\ targetValvePos = [ ch \in Channels |-> 0 ]
    /\ targetValvePosMsec = [ ch \in Channels |-> 0 ]
    /\ motorState = [ ch \in Channels |-> 0 ]
    /\ motorPins = [ ch \in Channels |-> << 0, 0 >> ]
    /\ reportInterval = C_REPORT_INTERVAL
    /\ now = 0
    /\ lastTime = 0
    /\ lastCheckTime = 0
    /\ delta = 0
    /\ reportDelta = 0
    /\ pulseCount = [ ch \in Channels |-> 0 ]
    /\ intAttached = [ ch \in Channels |-> TRUE ]
    /\ intPending = [ ch \in Channels |-> FALSE ]
    /\ flowPulses = [ ch \in Channels |-> 0 ]
    /\ serialOut = << >>
    /\ rx = "none"
    /\ pre = NoSnapshot
    /\ setValveArg = [ ch \in Channels |-> NoCall ]
    /\ lim = NoPins
    /\ atPoll = NoPoll
    /\ run = [ ch \in Channels |-> NoRun ]
    /\ calls = << >>
    /\ started = NotStarted
    /\ prevCheckTime = 0
    /\ timeStamp = 0
    /\ prevStamp = 0
    /\ pulsesFired = [ ch \in Channels |-> 0 ]
    /\ pulsesConsumed = [ ch \in Channels |-> 0 ]

----------------------------------------------------------------------------
(* recieveStates(): lines 244-274                                          *)

\* line 245: nothing available on Serial
RecieveNothing ==
    /\ pc = "recieve"
    /\ pc' = "clock"
    /\ rx' = "none"
    /\ pre' = Snapshot(NoDoc)
    /\ setValveArg' = [ ch \in Channels |-> NoCall ]
    /\ UNCHANGED << valveVars, reportInterval, clockVars, flowVars,
                    serialOut, lim, atPoll, run >>
    /\ calls' = << "recieveStates" >>
    /\ started' = NotStarted
    /\ UNCHANGED << timeStamp, prevCheckTime, prevStamp >>

\* the failure branch returning without printError
RecieveError_Silent ==
    /\ pc = "recieve"
    /\ pc' = "clock"
    /\ rx' = "bad"
    /\ pre' = Snapshot(NoDoc)
    /\ setValveArg' = [ ch \in Channels |-> NoCall ]
    /\ UNCHANGED << valveVars, reportInterval, clockVars, flowVars,
                    serialOut, lim, atPoll, run >>
    /\ calls' = << "recieveStates" >>
    /\ started' = NotStarted
    /\ UNCHANGED << timeStamp, prevCheckTime, prevStamp >>

\* lines 248-254: deserializeJson fails, printError, return
RecieveError ==
    /\ pc = "recieve"
    /\ pc' = "clock"
    /\ rx' = "bad"
    /\ pre' = Snapshot(NoDoc)
    /\ setValveArg' = [ ch \in Channels |-> NoCall ]
    /\ serialOut' = Append(serialOut, "error")
    /\ UNCHANGED << valveVars, reportInterval, clockVars, flowVars,
                    lim, atPoll, run >>
    /\ calls' = << "recieveStates" >>
    /\ started' = NotStarted
    /\ UNCHANGED << timeStamp, prevCheckTime, prevStamp >>

\* lines 248-272: deserializeJson succeeds with document doc; the call
\* ends with delay(10), which the clock must still be followed through
RecieveFrame(doc) ==
    /\ pc = "recieve"
    /\ now + DrainDelay <= MaxTime
    /\ pc' = "clock"
    /\ reportInterval' = DecodeInterval(doc)
    /\ targetValvePos' = [ ch \in Channels |-> ApplyPos(doc, ch).perc ]
    /\ targetValvePosMsec' = [ ch \in Channels |-> ApplyPos(doc, ch).msec ]
    /\ motorState' = [ ch \in Channels |-> ApplyPos(doc, ch).state ]
    /\ motorPins' = [ ch \in Channels |-> ApplyPos(doc, ch).pins ]
    /\ rx' = "frame"
    /\ pre' = Snapshot(doc)
    /\ setValveArg' =
          [ ch \in Channels |->
              IF DecodePos(doc, ch) # targetValvePos[ch]
                  THEN ToUint8(DecodePos(doc, ch)) ELSE NoCall ]
    /\ run' = [ ch \in Channels |-> RunAfterCommand(ch, doc) ]
    /\ UNCHANGED << clockVars, flowVars, serialOut, lim, atPoll >>
    /\ calls' = << "recieveStates" >>
    /\ started' = [ ch \in Channels |-> StartedBy(doc, ch) ]
    /\ UNCHANGED << timeStamp, prevCheckTime, prevStamp >>

----------------------------------------------------------------------------
(* loop(), lines 183-193: read the clock, compute delta and reportDelta,   *)
(* decide whether a report is due.  e is the time since the previous       *)
(* reading of millis(): at least the delay(10) of line 269 when a frame    *)
(* was applied in this cycle.  The second reading, at line 184, follows    *)
(* the first within microseconds and is taken to return the same value.    *)
(* The unsigned long readings stay below MaxTime, far from the 2^32 wrap,  *)
(* and never decrease, so their differences are the plain differences; the *)
(* stores into the int globals delta and reportDelta keep 16 bits.         *)

\* the report sent without line 188: lastCheckTime never updated
Timing_NoReset(e, horizon) ==
    /\ pc = "clock"
    /\ now + e <= horizon
    /\ rx = "frame" => e >= DrainDelay
    /\ LET currentCheckTime == now + e
           due == currentCheckTime - lastCheckTime >= reportInterval
       IN  /\ delta' = ToInt16(currentCheckTime - lastTime)
           /\ lastTime' = currentCheckTime
           /\ reportDelta' = ToInt16(currentCheckTime - lastCheckTime)
           /\ lastCheckTime' = lastCheckTime
           /\ pc' = IF due THEN "flow_detach" ELSE "check"
           /\ now' = currentCheckTime
    /\ pre' = NoSnapshot
    /\ setValveArg' = [ ch \in Channels |-> NoCall ]
    /\ UNCHANGED << valveVars, reportInterval, flowVars, serialOut,
                    rx, lim, atPoll, run >>
    /\ prevCheckTime' = lastCheckTime
    /\ UNCHANGED << timeStamp, calls, started, prevStamp >>

\* lines 183-193, the clock followed up to horizon
Timing(e, horizon) ==
    /\ pc = "clock"
    /\ now + e <= horizon
    /\ rx = "frame" => e >= DrainDelay
    /\ LET currentCheckTime == now + e
           due == currentCheckTime - lastCheckTime >= reportInterval
       IN  /\ delta' = ToInt16(currentCheckTime - lastTime)
           /\ lastTime' = currentCheckTime
           /\ reportDelta' = ToInt16(currentCheckTime - lastCheckTime)
           /\ lastCheckTime' = IF due THEN currentCheckTime ELSE lastCheckTime
           /\ pc' = IF due THEN "flow_detach" ELSE "check"
           /\ now' = currentCheckTime
    /\ pre' = NoSnapshot
    /\ setValveArg' = [ ch \in Channels |-> NoCall ]
    /\ UNCHANGED << valveVars, reportInterval, flowVars, serialOut,
                    rx, lim, atPoll, run >>
    /\ prevCheckTime' = lastCheckTime
    /\ UNCHANGED << timeStamp, calls, started, prevStamp >>

\* lines 183-193
LoopTiming(e) == Timing(e, MaxTime)

----------------------------------------------------------------------------
(* updateFlowRate(), lines 431-445, statement by statement: the pulse      *)
(* interrupts may fire between any two of them.                            *)

\* line 433, setInterrupts(false): detachInterrupt() is handed the handler's
\* address where an interrupt number is expected, so which of the two
\* interrupt lines (if any) it disables depends on the build: hit is the
\* set of lines the two calls disable.
FlowDetach(hit) ==
    /\ pc = "flow_detach"
    /\ pc' = "flow_read0"
    /\ intAttached' = [ ch \in Channels |-> intAttached[ch] /\ ch \notin hit ]
    /\ UNCHANGED << valveVars, reportInterval, clockVars, pulseCount,
                    intPending, flowPulses, pulsesFired, pulsesConsumed,
                    serialOut, rx, pre, setValveArg, lim,
                    atPoll, run >>
    /\ calls' = Append(calls, "updateSensorValues")
    /\ UNCHANGED << timeStamp, started, prevCheckTime, prevStamp >>

\* lines 436 (which = 0) and 437 (which = 1): pulseCountN enters flowRate[N]
FlowRead(which) ==
    /\ pc = IF which = 0 THEN "flow_read0" ELSE "flow_read1"
    /\ pc' = IF which = 0 THEN "flow_read1" ELSE "flow_reset0"
    /\ flowPulses' = [ flowPulses EXCEPT ![which] = pulseCount[which] ]
    /\ pulsesConsumed' =
          [ pulsesConsumed EXCEPT ![which] = @ + pulseCount[which] ]
    /\ UNCHANGED << valveVars, reportInterval, clockVars, pulseCount,
                    intAttached, intPending, pulsesFired,
                    serialOut, rx, pre, setValveArg, lim,
                    atPoll, run >>
    /\ UNCHANGED << timeStamp, calls, started, prevCheckTime, prevStamp >>

\* lines 440 (which = 0) and 441 (which = 1)
FlowReset(which) ==
    /\ pc = IF which = 0 THEN "flow_reset0" ELSE "flow_reset1"
    /\ pc' = IF which = 0 THEN "flow_reset1" ELSE "flow_attach"
    /\ pulseCount' = [ pulseCount EXCEPT ![which] = 0 ]
    /\ UNCHANGED << valveVars, reportInterval, clockVars,
                    intAttached, intPending, flowPulses, pulsesFired,
                    pulsesConsumed, serialOut, rx, pre,
                    setValveArg, lim, atPoll, run >>
    /\ UNCHANGED << timeStamp, calls, started, prevCheckTime, prevStamp >>

\* line 444, setInterrupts(true): both lines are enabled again; an edge
\* latched while a line was disabled runs its handler once.
FlowAttach ==
    /\ pc = "flow_attach"
    /\ pc' = "send"
    /\ intAttached' = [ ch \in Channels |-> TRUE ]
    /\ intPending' = [ ch \in Channels |-> FALSE ]
    /\ pulseCount' = [ ch \in Channels |->
                         IF intPending[ch] THEN ToUint8(pulseCount[ch] + 1)
                                           ELSE pulseCount[ch] ]
    /\ UNCHANGED << valveVars, reportInterval, clockVars, flowPulses,
                    pulsesFired, pulsesConsumed, serialOut, rx,
                    pre, setValveArg, lim, atPoll, run >>
    /\ UNCHANGED << timeStamp, calls, started, prevCheckTime, prevStamp >>

\* sendStates(): lines 202-240.  e is the time updateSensorValues() took
\* since line 183 read the clock: line 206 reads millis() again.
Send(e, horizon) ==
    /\ pc = "send"
    /\ now + e <= horizon
    /\ pc' = "check"
    /\ now' = now + e
    /\ timeStamp' = now + e
    /\ prevStamp' = timeStamp
    /\ serialOut' = Append(serialOut, "report")
    /\ calls' = Append(calls, "sendStates")
    /\ UNCHANGED << valveVars, reportInterval, lastTime, lastCheckTime, delta,
                    reportDelta, flowVars, rx, pre, setValveArg, lim, atPoll,
                    run, started, prevCheckTime >>

\* sendStates() followed by the return of loop(): checkValves() left to the
\* cycles that send no report
SendStates_SkipCheck(e) ==
    /\ pc = "send"
    /\ now + e <= MaxTime
    /\ pc' = "return"
    /\ now' = now + e
    /\ timeStamp' = now + e
    /\ prevStamp' = timeStamp
    /\ serialOut' = Append(serialOut, "report")
    /\ calls' = Append(calls, "sendStates")
    /\ UNCHANGED << valveVars, reportInterval, lastTime, lastCheckTime, delta,
                    reportDelta, flowVars, rx, pre, setValveArg, lim, atPoll,
                    run, started, prevCheckTime >>

\* sendStates(): lines 202-240
SendStates(e) == Send(e, MaxTime)

\* a falling edge on flow input which: pulseInterrupt0 / pulseInterrupt1,
\* lines 468-475, when the line is enabled
Pulse(which) ==
    /\ pulsesFired[0] + pulsesFired[1] < MaxPulses
    /\ pulsesFired' = [ pulsesFired EXCEPT ![which] = @ + 1 ]
    /\ IF intAttached[which]
          THEN /\ pulseCount' =
                     [ pulseCount EXCEPT ![which] = ToUint8(@ + 1) ]
               /\ UNCHANGED intPending
          ELSE /\ intPending' = [ intPending EXCEPT ![which] = TRUE ]
               /\ UNCHANGED pulseCount
    /\ UNCHANGED << pc, valveVars, reportInterval, clockVars, intAttached,
                    flowPulses, pulsesConsumed, serialOut, rx,
                    pre, setValveArg, lim, atPoll, run >>
    /\ UNCHANGED << timeStamp, calls, started, prevCheckTime, prevStamp >>

----------------------------------------------------------------------------
(* checkValves(): lines 337-372, with the four limit pins as read          *)

CheckValves(pins) ==
    /\ pc = "check"
    /\ pc' = "return"
    /\ targetValvePosMsec' =
          [ ch \in Channels |-> checkValve(Chan(ch), delta, pins[ch]).msec ]
    /\ motorState' =
          [ ch \in Channels |-> checkValve(Chan(ch), delta, pins[ch]).state ]
    /\ motorPins' =
          [ ch \in Channels |-> checkValve(Chan(ch), delta, pins[ch]).pins ]
    /\ lim' = pins
    /\ atPoll' = [ ch \in Channels |->
                      [ state |-> Countdown(Chan(ch), delta).state,
                        msec  |-> Countdown(Chan(ch), delta).msec ] ]
    /\ run' = [ ch \in Channels |-> RunAfterCheck(run[ch], delta, pins[ch]) ]
    /\ UNCHANGED << targetValvePos, reportInterval, clockVars, flowVars,
                    serialOut, rx, pre, setValveArg >>
    /\ calls' = Append(calls, "checkValves")
    /\ UNCHANGED << timeStamp, started, prevCheckTime, prevStamp >>

\* loop() returns and main() calls it again; what was observed of the
\* cycle that ends is forgotten
LoopReturn ==
    /\ pc = "return"
    /\ pc' = "recieve"
    /\ rx' = "none"
    /\ serialOut' = << >>
    /\ lim' = NoPins
    /\ atPoll' = NoPoll
    /\ UNCHANGED << valveVars, reportInterval, clockVars, flowVars,
                    pre, setValveArg, run >>
    /\ calls' = << >>
    /\ started' = NotStarted
    /\ prevCheckTime' = 0
    /\ prevStamp' = 0
    /\ UNCHANGED timeStamp

----------------------------------------------------------------------------
(* Specifications                                                          *)

UpdateFlowRate ==
    \/ \E hit \in SUBSET Channels : FlowDetach(hit)
    \/ \E which \in Channels : FlowRead(which)
    \/ \E which \in Channels : FlowReset(which)
    \/ FlowAttach

\* the control loop with commands arriving; no flow pulses
Next ==
    \/ RecieveNothing
    \/ RecieveError
    \/ \E doc \in Frames : RecieveFrame(doc)
    \/ \E e \in Elapsed : LoopTiming(e)
    \/ UpdateFlowRate
    \/ \E e \in SensorTime : SendStates(e)
    \/ \E pins \in PinReadings : CheckValves(pins)
    \/ LoopReturn

Spec == Init /\ [][Next]_vars

\* the control loop with flow pulses arriving at any point; no commands
NextFlow ==
    \/ RecieveNothing
    \/ \E e \in Elapsed : LoopTiming(e)
    \/ UpdateFlowRate
    \/ \E e \in SensorTime : SendStates(e)
    \/ \E pins \in PinReadings : CheckValves(pins)
    \/ LoopReturn
    \/ \E which \in Channels : Pulse(which)

SpecFlow == Init /\ [][NextFlow]_vars

\* the control loop with commands for valve 0 whose values lie in and
\* out of the range 0..100
NextRange ==
    \/ RecieveNothing
    \/ \E doc \in RangeFrames : RecieveFrame(doc)
    \/ \E e \in Elapsed : LoopTiming(e)
    \/ UpdateFlowRate
    \/ \E e \in SensorTime : SendStates(e)
    \/ \E pins \in PinReadings : CheckValves(pins)
    \/ LoopReturn

SpecRange == Init /\ [][NextRange]_vars

\* the control loop with a command for valve 0 in every cycle, the targets
\* ranging over all of 0..100
NextTravel ==
    \/ \E doc \in TravelFrames : RecieveFrame(doc)
    \/ \E e \in Elapsed : LoopTiming(e)
    \/ UpdateFlowRate
    \/ \E e \in SensorTime : SendStates(e)
    \/ \E pins \in PinReadings : CheckValves(pins)
    \/ LoopReturn

SpecTravel == Init /\ [][NextTravel]_vars

\* the control loop followed over a long report interval
NextLong ==
    \/ RecieveNothing
    \/ \E doc \in LongFrames : RecieveFrame(doc)
    \/ \E e \in LongElapsed : Timing(e, MaxLongTime)
    \/ UpdateFlowRate
    \/ \E e \in SensorTime : Send(e, MaxLongTime)
    \/ \E pins \in PinReadings : CheckValves(pins)
    \/ LoopReturn

SpecLong == Init /\ [][NextLong]_vars

\* the control loop with valve commands arriving up to MaxTime and the clock
\* followed on to MaxRunTime, long enough for the last run started
NextRun ==
    \/ RecieveNothing
    \/ \E doc \in RunFrames : RecieveFrame(doc)
    \/ \E e \in Elapsed : Timing(e, MaxRunTime)
    \/ UpdateFlowRate
    \/ \E e \in SensorTime : Send(e, MaxRunTime)
    \/ \E pins \in PinReadings : CheckValves(pins)
    \/ LoopReturn

\* a cycle in which the clock has advanced
ClockAdvances == \E e \in Elapsed \ {0} : Timing(e, MaxRunTime)

\* loop() keeps being called and the clock keeps advancing
FairRun ==
    Init /\ [][NextRun]_vars /\ WF_vars(NextRun) /\ SF_vars(ClockAdvances)

TypeOK ==
    /\ pc \in { "recieve", "clock", "flow_detach", "flow_read0",
                "flow_read1", "flow_reset0", "flow_reset1", "flow_attach",
                "send", "check", "return" }
    /\ targetValvePos \in [ Channels -> 0..255 ]
    /\ motorState \in [ Channels -> {-1, 0, 1} ]
    /\ reportInterval \in 0..65535
    /\ pulseCount \in [ Channels -> 0..255 ]
    /\ calls \in Seq({ "recieveStates", "updateSensorValues", "sendStates",
                       "checkValves" })
    /\ started \in [ Channels -> [ dir : {-1, 0, 1}, msec : Int ] ]
    /\ prevCheckTime \in 0..MaxTime
    /\ timeStamp \in 0..MaxTime
    /\ prevStamp \in 0..MaxTime


\* the loop never waits: every step of it that can be taken is taken
FairSpec == Spec /\ WF_vars(Next)

----------------------------------------------------------------------------
(* Properties                                                              *)

FullTravel(percentage) ==
    IF percentage = 0 THEN C_VALVE_CLOSE_TIME ELSE C_VALVE_OPEN_TIME

\* setValve(ch, p) was called by this cycle's recieveStates() with p
\* different from the target the channel had
Retargeted(ch) ==
    /\ pc = "clock"
    /\ setValveArg[ch] # NoCall
    /\ setValveArg[ch] # pre.perc[ch]

\* C1: setValve(channel, p) with p different from the current target c
\* leaves the channel Opening iff p > c and Closing iff p < c, whatever the
\* motor was doing before.
C1_DirectionFollowsTarget ==
    \A ch \in Channels :
        Retargeted(ch) =>
            /\ motorState[ch] = 1  <=> setValveArg[ch] > pre.perc[ch]
            /\ motorState[ch] = -1 <=> setValveArg[ch] < pre.perc[ch]

\* a motor that was opening has been turned to closing by a lower target
C1_Witness ==
    /\ Retargeted(0)
    /\ pre.state[0] = 1
    /\ setValveArg[0] < pre.perc[0]
    /\ motorState[0] = -1

\* C2: setValve with a percent equal to the channel's current target is a
\* no-op: motorState and remaining run time are as before the call.
C2_EqualTargetNoOp ==
    \A ch \in Channels :
        (pc = "clock" /\ setValveArg[ch] = pre.perc[ch]) =>
            /\ motorState[ch] = pre.state[ch]
            /\ targetValvePosMsec[ch] = pre.msec[ch]

\* C3: after setValve(channel, p) with p in {0, 100} and p different from
\* the current target, the remaining run time is the full-travel duration
\* plus the 2000 ms margin, whatever the previous target and remaining time.
C3_FullTravelRunTime ==
    \A ch \in Channels :
        (Retargeted(ch) /\ setValveArg[ch] \in {0, 100}) =>
            targetValvePosMsec[ch] = FullTravel(setValveArg[ch]) + SealMargin

\* a partly run opening is replaced by a full close
C3_Witness ==
    /\ Retargeted(0)
    /\ setValveArg[0] = 0
    /\ pre.perc[0] = 100
    /\ pre.msec[0] > 0
    /\ pre.state[0] = 1
    /\ targetValvePosMsec[0] = 6100

\* the limit switch matching the channel's direction read asserted when
\* checkValves() polled it
MatchingLimit(ch) ==
    /\ pc = "return"
    /\ \/ lim[ch].close /\ atPoll[ch].state = -1
       \/ lim[ch].open /\ atPoll[ch].state = 1

\* C4: a limit switch matching the direction, asserted when checkValves()
\* polls it, leaves the channel Idle with remaining run time 0 at the end of
\* the call, whatever run time was remaining.
C4_LimitStops ==
    \A ch \in Channels :
        MatchingLimit(ch) =>
            motorState[ch] = 0 /\ targetValvePosMsec[ch] = 0

\* an opening motor with time left is stopped by its open limit
C4_Witness ==
    /\ MatchingLimit(0)
    /\ atPoll[0].state = 1
    /\ atPoll[0].msec > 0
    /\ motorState[0] = 0
    /\ targetValvePosMsec[0] = 0

\* C5: outside updateFlowRate()'s read-and-reset, the pulses consumed by the
\* samples so far plus those waiting in the counter are exactly the pulse
\* edges that occurred: none lost, none counted twice.
C5_PulsesConserved ==
    pc \in { "send", "check", "return", "recieve", "clock", "flow_detach" } =>
        \A ch \in Channels :
            pulsesConsumed[ch] + pulseCount[ch] = pulsesFired[ch]

\* C6: a field absent from a parsed frame keeps its stored value, and an
\* absent targetValvePosN leaves valve N's motorState and remaining time.
C6_SparseMerge ==
    (pc = "clock" /\ rx = "frame") =>
        /\ \A ch \in Channels :
              PosKey(ch) \notin DOMAIN pre.doc =>
                  /\ targetValvePos[ch] = pre.perc[ch]
                  /\ motorState[ch] = pre.state[ch]
                  /\ targetValvePosMsec[ch] = pre.msec[ch]
        /\ "reportInterval" \notin DOMAIN pre.doc =>
              reportInterval = pre.interval

\* a frame carrying only targetValvePos0 moves valve 0 while valve 1 is
\* running and a non-default interval is stored
C6_Witness ==
    /\ pc = "clock"
    /\ rx = "frame"
    /\ DOMAIN pre.doc = { "targetValvePos0" }
    /\ targetValvePos[0] # pre.perc[0]
    /\ motorState[1] # 0
    /\ targetValvePosMsec[1] > 0
    /\ reportInterval = 3000

\* C7: a parsed frame whose reportInterval is below 1000 (negative values
\* included) leaves the stored reportInterval at the default 4000.
C7_LowIntervalReset ==
    (/\ pc = "clock"
     /\ rx = "frame"
     /\ "reportInterval" \in DOMAIN pre.doc
     /\ pre.doc["reportInterval"] < MinReportInterval)
        => reportInterval = C_REPORT_INTERVAL

\* C8: the stored reportInterval is at least 1000 in every reachable state.
C8_IntervalAtLeastMin == reportInterval >= MinReportInterval

\* a frame carrying 500 has just replaced a stored interval of 3000
C8_Witness ==
    /\ pc = "clock"
    /\ rx = "frame"
    /\ "reportInterval" \in DOMAIN pre.doc
    /\ pre.doc["reportInterval"] = 500
    /\ pre.interval = 3000
    /\ reportInterval = C_REPORT_INTERVAL

\* what a failed parse must leave alone
ParseErrorHarmless ==
    (pc = "clock" /\ rx = "bad") =>
        /\ serialOut = << "error" >>
        /\ targetValvePos = pre.perc
        /\ reportInterval = pre.interval
        /\ motorState = pre.state
        /\ targetValvePosMsec = pre.msec

\* C9: a frame that fails to parse makes recieveStates() emit one error
\* frame and change no command or valve state; the loop runs checkValves()
\* in that same cycle and starts the next cycle.
C9_ParseError ==
    /\ []ParseErrorHarmless
    /\ (pc = "clock" /\ rx = "bad") ~> (pc = "return" /\ rx = "bad")
    /\ (pc = "return" /\ rx = "bad") ~> (pc = "recieve")

\* a parse failure while valve 0 is running with a non-default interval
C9_Witness ==
    /\ pc = "return"
    /\ rx = "bad"
    /\ motorState[0] # 0
    /\ reportInterval # C_REPORT_INTERVAL

C11_IdleImpliesCleared ==
    pc = "return" =>
        \A ch \in Channels :
            motorState[ch] = 0 => targetValvePosMsec[ch] = 0


\* C12: the steps of a loop cycle run in a fixed order: recieveStates()
\* (with any setValve() it makes), then the report when one is due, then
\* checkValves() exactly once, in which the count down comes before the
\* limit polls.  A command decoded in a cycle has set the direction before
\* that cycle's count down (which already takes delta off its run time) and
\* limit polls (which act on the state the count down left).
C12_OrderOfCycle ==
    pc = "return" =>
        /\ calls \in { << "recieveStates", "checkValves" >>,
                       << "recieveStates", "updateSensorValues",
                          "sendStates", "checkValves" >> }
        /\ \A ch \in Channels :
              /\ started[ch].dir # 0 =>
                    atPoll[ch] = [ state |-> started[ch].dir,
                                   msec  |-> started[ch].msec - delta ]
              /\ IF MatchingLimit(ch)
                    THEN motorState[ch] = 0 /\ targetValvePosMsec[ch] = 0
                    ELSE /\ motorState[ch] = atPoll[ch].state
                         /\ targetValvePosMsec[ch] = atPoll[ch].msec

\* a command and a report in one cycle, the valve still opening after the
\* cycle's checkValves()
C12_Witness ==
    /\ pc = "return"
    /\ started[0].dir = 1
    /\ calls = << "recieveStates", "updateSensorValues", "sendStates",
                  "checkValves" >>
    /\ motorState[0] = 1
    /\ targetValvePosMsec[0] = started[0].msec - delta


\* C13: in every reachable state the two output pins of a channel agree
\* with its motorState: (1,0) exactly when Opening, (0,1) exactly when
\* Closing, (0,0) exactly when Idle; the two are never high together.
C13_PinsAgreeWithState ==
    \A ch \in Channels :
        /\ motorPins[ch] = << 1, 0 >> <=> motorState[ch] = 1
        /\ motorPins[ch] = << 0, 1 >> <=> motorState[ch] = -1
        /\ motorPins[ch] = << 0, 0 >> <=> motorState[ch] = 0
        /\ motorPins[ch] # << 1, 1 >>

\* a valve reversed from opening to closing by a command
C13_Witness ==
    /\ pc = "clock"
    /\ pre.state[1] = 1
    /\ motorState[1] = -1
    /\ motorPins[1] = << 0, 1 >>


\* C14: the stored targets always lie in 0..100, and no setValve() call is
\* made for a decoded percentage outside 0..100 (negative, 101..255, 256 or
\* more): the control loop clamps or rejects it before the call.
C14_TargetsInRange ==
    \A ch \in Channels :
        /\ targetValvePos[ch] \in 0..100
        /\ (pc = "clock" /\ setValveArg[ch] # NoCall) =>
              pre.doc[PosKey(ch)] \in 0..100


\* this cycle's line 187 found the report due
ReportDue == lastTime - prevCheckTime >= reportInterval

\* C15: a cycle produces a report (updateSensorValues() and sendStates())
\* exactly when the clock reading of the cycle lies at least the stored
\* reportInterval after lastCheckTime; producing it sets lastCheckTime to
\* that reading, so two consecutive reports lie at least reportInterval
\* apart; the timeStamp values of the reports never decrease.
C15_ReportWhenDue ==
    /\ pc \in { "flow_detach", "flow_read0", "flow_read1", "flow_reset0",
                "flow_reset1", "flow_attach", "send" } => ReportDue
    /\ pc \in { "check", "return" } =>
          (ReportDue <=> calls[Len(calls) - (IF pc = "check" THEN 0 ELSE 1)]
                            = "sendStates")
    /\ pc \notin { "recieve", "clock" } =>
          lastCheckTime = IF ReportDue THEN lastTime ELSE prevCheckTime
    /\ (pc \in { "check", "return" } /\ ReportDue) =>
          /\ serialOut # << >>
          /\ serialOut[Len(serialOut)] = "report"
          /\ lastCheckTime - prevCheckTime >= reportInterval
          /\ timeStamp >= lastCheckTime
          /\ timeStamp >= prevStamp
    /\ (pc \in { "check", "return" } /\ ~ReportDue) =>
          \A i \in 1..Len(serialOut) : serialOut[i] # "report"

\* the second of two consecutive reports, the first one stamped after the
\* clock reading of its cycle
C15_Witness ==
    /\ pc = "return"
    /\ ReportDue
    /\ prevCheckTime > 0
    /\ prevStamp > 0
    /\ timeStamp > prevStamp
    /\ serialOut = << "report" >>


\* C16: for a current target c in 0..100 and a new target p in 1..99 with
\* p # c, setValve() sets the remaining run time to
\* fullDuration * |p - c| / 100 (fullDuration of the direction of travel),
\* and the code's (turnLength / 100) * |p - c| is that same value.
C16_IntermediateRunTime ==
    \A ch \in Channels :
        (/\ Retargeted(ch)
         /\ setValveArg[ch] \in 1..99
         /\ pre.perc[ch] \in 0..100) =>
            LET fullDuration == IF setValveArg[ch] < pre.perc[ch]
                                   THEN C_VALVE_CLOSE_TIME
                                   ELSE C_VALVE_OPEN_TIME
                change == abs(setValveArg[ch] - pre.perc[ch])
            IN  /\ targetValvePosMsec[ch] * 100 = fullDuration * change
                /\ targetValvePosMsec[ch] = (fullDuration \div 100) * change

\* valve 0 sent from 73 to 18: closing for 41 * 55 ms
C16_Witness ==
    /\ Retargeted(0)
    /\ pre.perc[0] = 73
    /\ setValveArg[0] = 18
    /\ motorState[0] = -1
    /\ targetValvePosMsec[0] = 2255


\* C17: checkValves() ignores a limit switch that does not match the
\* direction of travel.  A channel Idle at the call keeps its motorState,
\* remaining time and motor outputs whatever switches read asserted; a
\* channel the count down leaves Opening keeps opening with its remaining
\* time unless the open limit is asserted, whatever the close limit reads,
\* and likewise a Closing channel with the open limit.
C17_OtherLimitIgnored ==
    [][ pc = "check" =>
          \A ch \in Channels :
              /\ motorState[ch] = 0 =>
                    /\ motorState'[ch] = 0
                    /\ targetValvePosMsec'[ch] = targetValvePosMsec[ch]
                    /\ motorPins'[ch] = motorPins[ch]
              /\ (atPoll'[ch].state = 1 /\ ~lim'[ch].open) =>
                    /\ motorState'[ch] = 1
                    /\ targetValvePosMsec'[ch] = atPoll'[ch].msec
                    /\ motorPins'[ch] = << 1, 0 >>
              /\ (atPoll'[ch].state = -1 /\ ~lim'[ch].close) =>
                    /\ motorState'[ch] = -1
                    /\ targetValvePosMsec'[ch] = atPoll'[ch].msec
                    /\ motorPins'[ch] = << 0, 1 >> ]_vars

\* valve 1 closing with time left while its open limit reads asserted, and
\* still closing after checkValves()
C17_Witness ==
    /\ pc = "return"
    /\ lim[1].open
    /\ ~lim[1].close
    /\ atPoll[1].state = -1
    /\ motorState[1] = -1
    /\ targetValvePosMsec[1] > 0


\* C18: whenever updateFlowRate() runs, reportDelta, the window it divides
\* by, is the time that passed since the previous report (since start-up for
\* the first one) and is strictly positive, for every stored reportInterval
\* and every overrun of the cycle; its 16-bit type never changes the value.
C18_WindowIsElapsed ==
    pc \in { "flow_detach", "flow_read0", "flow_read1", "flow_reset0",
             "flow_reset1", "flow_attach" } =>
        /\ reportDelta = lastTime - prevCheckTime
        /\ reportDelta > 0


\* C19: every motor that is started stops again: while loop() keeps being
\* called and the clock keeps advancing, a channel that is Opening or
\* Closing reaches Idle, with no limit switch needed, and an Idle channel
\* is only started by a command that changes its target.
C19_MotorEventuallyStops ==
    /\ \A ch \in Channels : (motorState[ch] # 0) ~> (motorState[ch] = 0)
    /\ [][ \A ch \in Channels :
              (motorState[ch] = 0 /\ motorState'[ch] # 0) =>
                  /\ pc = "recieve"
                  /\ targetValvePos'[ch] # targetValvePos[ch] ]_vars

\* valve 1 stopped by the count down alone, after the last command
C19_Witness ==
    /\ pc = "return"
    /\ now > MaxTime
    /\ lim = NoPins
    /\ run[1].live
    /\ run[1].over = 2
    /\ motorState[1] = 0
    /\ targetValvePosMsec[1] < 0


\* C20: at the end of every loop cycle no channel is Opening while its open
\* limit read asserted in that cycle's checkValves(), and none is Closing
\* while its close limit read asserted, the cycle in which the command that
\* started the motor was decoded included.
C20_NotDrivenIntoLimit ==
    pc = "return" =>
        \A ch \in Channels :
            /\ ~(motorState[ch] = 1 /\ lim[ch].open)
            /\ ~(motorState[ch] = -1 /\ lim[ch].close)

\* valve 0 started opening by a command and stopped by its open limit in
\* the same cycle
C20_Witness ==
    /\ pc = "return"
    /\ started[0].dir = 1
    /\ started[0].msec > 0
    /\ lim[0].open
    /\ motorState[0] = 0
    /\ motorPins[0] = << 0, 0 >>

============================================================================
